---- MODULE Spec2Model ----
(***************************************************************************)
(* Model of the arena allocator of arena.go: the lock-free bump cursor of  *)
(* Arena.alloc, the lock-guarded rollover of Arena.resize and Arena.Reset. *)
(* Threads call alloc(n) and Reset concurrently.  Every access to memory   *)
(* that other threads can touch without the lock (the atomic cursor, the   *)
(* unsynchronised field "current") is a step of its own; statements that   *)
(* only touch lock-protected fields are grouped with the step before them. *)
(* A panic is delivered to the caller as a fault after the deferred Unlock *)
(* has run, as assert.Panics observes it in the tests.  A second           *)
(* specification, AppendSpec, has one goroutine call Make and Append on    *)
(* the arena, with the bytes of the slices and int arithmetic of IntBits.  *)
(***************************************************************************)
EXTENDS Integers, Sequences, FiniteSets, Bags, TLC

\* ------------------------------------------------------------------ bounds
NumThreads == 2
MaxChunkSize == 3
MaxLimit == 2
MaxOps == 3
IntBits == 4       \* width of int
MaxElems == 2      \* most elements appended, most elements made
MaxElemSize == 2   \* largest unsafe.Sizeof(t)

Threads == 1..NumThreads

\* the zero value of sync.Mutex: unlocked
NoThread == 0

VARIABLES
  chunkSize,    \* Arena.chunkSize
  limit,        \* Arena.limit
  cursor,       \* Arena.cursor (atomic)
  chunkCursor,  \* Arena.chunkCursor
  current,      \* Arena.current: identity of the active chunk
  chunks,       \* Arena.chunks: sequence of chunk identities
  lock,         \* Arena.lock: NoThread or the holder
  made,         \* number of chunks provisioned by make([]byte, chunkSize) so far
  dirty,        \* set of <<chunk, offset>> bytes that are non-zero
  pc,           \* position of each thread
  n,            \* argument n of the alloc call of each thread
  next,         \* local "next" of alloc/resize of each thread
  before,       \* local "before" of Reset of each thread
  last,         \* outcome of the call that finished last
  allocs,       \* bag of the ranges returned since creation / the last Reset
  stale,        \* the thread's atomic add took effect before the last Reset
  exhausted,    \* some add overflowed the chunk since creation / last Reset,
                \* or overflowed it earlier and its call has not finished
  resetQuiet,   \* every other thread was idle when the running Reset loaded the cursor
  resetRaced,   \* an atomic add took effect since the running Reset loaded the cursor
  ops,          \* number of calls issued so far
  mem,          \* contents of the bytes written through slices: <<store, offset>> -> value
  app           \* the goroutine calling Make and Append: its position and locals

vars == <<chunkSize, limit, cursor, chunkCursor, current, chunks, lock, made,
          dirty, pc, n, next, before, last, allocs, stale, exhausted,
          resetQuiet, resetRaced, ops, mem, app>>

\* ---------------------------------------------------------------- outcomes
\* size is the n of the finished alloc call (0 for Reset)
NoRes == [kind |-> "none", size |-> 0, chunk |-> 0, lo |-> 0, hi |-> 0, path |-> "none"]
Fault(k, sz) == [kind |-> k, size |-> sz, chunk |-> 0, lo |-> 0, hi |-> 0, path |-> "none"]

\* the bytes of a range
Bytes(c, lo, hi) == {<<c, o>> : o \in lo..(hi - 1)}

\* &a.current[next-n : next][0]
RangeOfNoOffset(c, nx, sz) == [chunk |-> c, lo |-> 0, hi |-> sz]
RangeOfFromNext(c, nx, sz) == [chunk |-> c, lo |-> nx, hi |-> nx + sz]
RangeOf(c, nx, sz) == [chunk |-> c, lo |-> nx - sz, hi |-> nx]

\* if next < a.chunkSize
FastPathInclusive(nx) == nx <= chunkSize
FastPathOK(nx) == nx < chunkSize

\* if a.limit != 0 && int(a.chunkCursor) >= a.limit
LimitReached == limit # 0 /\ chunkCursor >= limit

\* if a.chunkCursor < int64(len(a.chunks)-1)
ReuseTrailing == chunkCursor < Len(chunks) - 1

\* else if len(a.chunks) < a.limit
CanProvisionInclusive == Len(chunks) <= limit
CanProvision == Len(chunks) < limit

\* the bounds checks of a.current[lo : hi][0]: the slice expression needs
\* 0 <= lo <= hi <= cap(a.current), the index a length of at least 1
InBounds(lo, hi) == 0 <= lo /\ lo < hi /\ hi <= chunkSize

\* if next > a.chunkSize  (next = int64(n))
TooLargeOffByOne(sz) == sz > chunkSize + 1
TooLarge(sz) == sz > chunkSize

\* for _, chunk := range a.chunks { zero it }
ResetZeroedCurrentOnly == {current}
ResetZeroed == {chunks[i] : i \in 1..Len(chunks)}

\* a.chunks = [][]byte{a.current}  (a.current is a.chunks[0] by then)
ResetChunksKept == chunks
ResetChunks == <<chunks[1]>>

\* defer a.lock.Unlock(): the lock after the call of thread t has ended,
\* by a return or by a panic
UnlockOnReturnOnly(t, faulted) == IF faulted THEN t ELSE NoThread
DeferredUnlock(t, faulted) == NoThread

\* a.cursor.CompareAndSwap(before, 0) of Reset
ResetSwapAtLeast(b) == cursor >= b
ResetSwapOK(b) == cursor = b

\* a.cursor.CompareAndSwap(next, int64(n)) of resize
ResizeSwapOK(nx) == cursor = nx

\* ------------------------------------------------------------ typed views
\* int arithmetic wraps around at IntBits bits (two's complement)
MaxInt == 2^(IntBits - 1) - 1
Wrap(x) == ((x + 2^(IntBits - 1)) % 2^IntBits) - 2^(IntBits - 1)

\* backing arrays outside the arena: of the slice and of the elements that
\* the caller built with make / a literal; chunks are numbered from 0
HeapSlice == -1
HeapElems == -2
NoStore == -3

\* a slice header: backing store, byte offset of element 0, len, cap
View(st, off, l, c) == [store |-> st, off |-> off, len |-> l, cap |-> c]
NoView == View(NoStore, 0, 0, 0)

\* nothing has been written through a slice
NoMem == [a \in {} |-> 0]

\* memory reads as zero until it is written
Load(m, a) == IF a \in DOMAIN m THEN m[a] ELSE 0

\* the first cnt bytes of the view v
ReadBytes(m, v, cnt) == [b \in 1..cnt |-> Load(m, <<v.store, v.off + b - 1>>)]

\* the bytes data stored from byte offset off of the store st
WriteBytes(m, st, off, data) ==
  [a \in DOMAIN m \cup {<<st, off + b - 1>> : b \in 1..Len(data)} |->
     IF a[1] = st /\ a[2] >= off /\ a[2] < off + Len(data)
       THEN data[a[2] - off + 1]
       ELSE m[a]]

\* the values the caller stores: byte b of the slice, of the elements, of
\* the slice it made in the arena; all differ, none is zero
SliceTok(b) == 3 * b + 1
ElemTok(b) == 3 * b + 2
MakeTok(b) == 3 * b + 3

\* no Make or Append call is modelled
NoApp == [pc |-> "none", esize |-> 0, mk |-> NoView, slice |-> NoView,
          elems |-> NoView, newLen |-> 0, capacity |-> 0, old |-> <<>>,
          new |-> <<>>, res |-> NoView, arena |-> <<>>, calls |-> 0]

\* ------------------------------------------------------------------- Init
\* Create(chunkSize, WithLimit(limit))
Init ==
  /\ chunkSize \in 1..MaxChunkSize
  /\ limit \in 0..MaxLimit
  /\ cursor = 0
  /\ chunkCursor = 0
  /\ current = 0
  /\ chunks = <<0>>
  /\ lock = NoThread
  /\ made = 1
  /\ dirty = {}
  /\ pc = [t \in Threads |-> "idle"]
  /\ n = [t \in Threads |-> 0]
  /\ next = [t \in Threads |-> 0]
  /\ before = [t \in Threads |-> 0]
  /\ last = NoRes
  /\ allocs = EmptyBag
  /\ stale = [t \in Threads |-> FALSE]
  /\ exhausted = FALSE
  /\ resetQuiet = FALSE
  /\ resetRaced = FALSE
  /\ ops = 0
  /\ mem = NoMem
  /\ app = NoApp

\* a Reset holds the lock and has loaded the cursor
ResetRunning == lock # NoThread /\ pc[lock] \in {"reset_zero", "reset_cas"}

\* Idle threads do not differ from one another: a call is issued by the
\* first idle thread.
Caller(t) == pc[t] = "idle" /\ \A u \in Threads : u < t => pc[u] # "idle"

\* A thread returns the range r; its caller stores into it (*out = value of
\* Value, copy of String and growSlice, the field stores of the tests).
Return(t, r, path) ==
  /\ last' = [kind |-> "range", size |-> n[t], chunk |-> r.chunk, lo |-> r.lo,
              hi |-> r.hi, path |-> path]
  /\ dirty' = dirty \cup Bytes(r.chunk, r.lo, r.hi)
  /\ allocs' = IF stale[t] THEN allocs
               ELSE allocs (+) SetToBag({[chunk |-> r.chunk, lo |-> r.lo, hi |-> r.hi,
                                          pre |-> ~exhausted]})
  /\ stale' = [stale EXCEPT ![t] = FALSE]
  /\ pc' = [pc EXCEPT ![t] = "idle"]
  /\ n' = [n EXCEPT ![t] = 0]
  /\ next' = [next EXCEPT ![t] = 0]

\* A thread's call ends in the fault k.
Panic(t, k) ==
  /\ last' = Fault(k, n[t])
  /\ pc' = [pc EXCEPT ![t] = "idle"]
  /\ n' = [n EXCEPT ![t] = 0]
  /\ next' = [next EXCEPT ![t] = 0]
  /\ stale' = [stale EXCEPT ![t] = FALSE]

\* next := a.cursor.Add(int64(n)); the branch on next is local
Alloc(t, sz) ==
  /\ Caller(t)
  /\ ops < MaxOps
  /\ ops' = ops + 1
  /\ cursor' = cursor + sz
  /\ n' = [n EXCEPT ![t] = sz]
  /\ next' = [next EXCEPT ![t] = cursor + sz]
  /\ pc' = [pc EXCEPT ![t] = IF FastPathOK(cursor + sz) THEN "alloc_read" ELSE "resize_lock"]
  /\ exhausted' = (exhausted \/ ~FastPathOK(cursor + sz))
  /\ resetRaced' = (resetRaced \/ ResetRunning)
  /\ UNCHANGED <<chunkSize, limit, chunkCursor, current, chunks, lock, made, dirty,
                 before, last, allocs, stale, resetQuiet, mem, app>>

\* return unsafe.Pointer(&a.current[next-int64(n) : next][0]); when the call
\* is the retry made inside resize, the deferred Unlock of resize runs
AllocFast(t) ==
  /\ pc[t] = "alloc_read"
  /\ IF InBounds(next[t] - n[t], next[t])
       THEN Return(t, RangeOf(current, next[t], n[t]), "fast")
       ELSE Panic(t, "OutOfRange") /\ UNCHANGED <<dirty, allocs>>
  /\ lock' = IF lock = t THEN DeferredUnlock(t, ~InBounds(next[t] - n[t], next[t])) ELSE lock
  /\ UNCHANGED <<chunkSize, limit, cursor, chunkCursor, current, chunks, made,
                 before, exhausted, resetQuiet, resetRaced, ops, mem, app>>

\* a.lock.Lock(); defer a.lock.Unlock(); the limit check
ResizeLock(t) ==
  /\ pc[t] = "resize_lock"
  /\ lock = NoThread
  /\ IF LimitReached
       THEN /\ Panic(t, "CapacityExceeded")
            /\ lock' = DeferredUnlock(t, TRUE)
       ELSE /\ pc' = [pc EXCEPT ![t] = "resize_cas"]
            /\ lock' = t
            /\ UNCHANGED <<last, n, next, stale>>
  /\ UNCHANGED <<chunkSize, limit, cursor, chunkCursor, current, chunks, made, dirty,
                 before, allocs, exhausted, resetQuiet, resetRaced, ops, mem, app>>

\* if !a.cursor.CompareAndSwap(next, int64(n)) { return a.alloc(n) }
ResizeCAS(t) ==
  /\ pc[t] = "resize_cas"
  /\ IF ResizeSwapOK(next[t])
       THEN /\ cursor' = n[t]
            /\ pc' = [pc EXCEPT ![t] = "resize_select"]
       ELSE /\ cursor' = cursor
            /\ pc' = [pc EXCEPT ![t] = "resize_retry"]
  /\ UNCHANGED <<chunkSize, limit, chunkCursor, current, chunks, lock, made, dirty,
                 n, next, before, last, allocs, stale, exhausted,
                 resetQuiet, resetRaced, ops, mem, app>>

\* the a.alloc(n) called by resize with the lock held: its atomic add
ResizeRetry(t) ==
  /\ pc[t] = "resize_retry"
  /\ cursor' = cursor + n[t]
  /\ next' = [next EXCEPT ![t] = cursor + n[t]]
  /\ pc' = [pc EXCEPT ![t] = IF FastPathOK(cursor + n[t]) THEN "alloc_read" ELSE "resize_lock"]
  /\ stale' = [stale EXCEPT ![t] = FALSE]
  /\ exhausted' = (exhausted \/ ~FastPathOK(cursor + n[t]))
  /\ UNCHANGED <<chunkSize, limit, chunkCursor, current, chunks, lock, made, dirty,
                 n, before, last, allocs, resetQuiet, resetRaced, ops, mem, app>>

\* the chunk selection, a.chunkCursor++, the size check and the return
ResizeSelect(t) ==
  /\ pc[t] = "resize_select"
  /\ LET provision == ~ReuseTrailing /\ CanProvision
         cur == IF ReuseTrailing THEN chunks[chunkCursor + 1]
                ELSE IF CanProvision THEN made
                ELSE current
     IN /\ current' = cur
        /\ chunks' = IF provision THEN Append(chunks, made) ELSE chunks
        /\ made' = IF provision THEN made + 1 ELSE made
        /\ chunkCursor' = chunkCursor + 1
        /\ lock' = DeferredUnlock(t, TooLarge(n[t]) \/ ~InBounds(0, n[t]))
        /\ IF TooLarge(n[t])
             THEN Panic(t, "ObjectTooLarge") /\ UNCHANGED <<dirty, allocs>>
             ELSE IF ~InBounds(0, n[t])
               THEN Panic(t, "OutOfRange") /\ UNCHANGED <<dirty, allocs>>
               ELSE Return(t, RangeOf(cur, n[t], n[t]), "resize")
  /\ UNCHANGED <<chunkSize, limit, cursor, before, exhausted, resetQuiet, resetRaced, ops, mem, app>>

\* Reset is called
Reset(t) ==
  /\ Caller(t)
  /\ ops < MaxOps
  /\ ops' = ops + 1
  /\ pc' = [pc EXCEPT ![t] = "reset_lock"]
  /\ UNCHANGED <<chunkSize, limit, cursor, chunkCursor, current, chunks, lock, made,
                 dirty, n, next, before, last, allocs, stale, exhausted,
                 resetQuiet, resetRaced, mem, app>>

\* a.lock.Lock(); defer a.lock.Unlock(); before := a.cursor.Load()
ResetLock(t) ==
  /\ pc[t] = "reset_lock"
  /\ lock = NoThread
  /\ lock' = t
  /\ before' = [before EXCEPT ![t] = cursor]
  /\ pc' = [pc EXCEPT ![t] = "reset_zero"]
  /\ resetQuiet' = (\A u \in Threads \ {t} : pc[u] = "idle")
  /\ resetRaced' = FALSE
  /\ UNCHANGED <<chunkSize, limit, cursor, chunkCursor, current, chunks, made, dirty,
                 n, next, last, allocs, stale, exhausted, ops, mem, app>>

\* zero the chunks; a.current = a.chunks[0]; a.chunks = [][]byte{a.current};
\* a.chunkCursor = 0
ResetZero(t) ==
  /\ pc[t] = "reset_zero"
  /\ dirty' = {d \in dirty : d[1] \notin ResetZeroed}
  /\ current' = chunks[1]
  /\ chunks' = ResetChunks
  /\ chunkCursor' = 0
  /\ pc' = [pc EXCEPT ![t] = "reset_cas"]
  /\ allocs' = EmptyBag
  /\ exhausted' = (\E u \in Threads : pc[u] = "resize_lock")
  /\ stale' = [u \in Threads |-> pc[u] \in {"alloc_read", "resize_lock"}]
  /\ UNCHANGED <<chunkSize, limit, cursor, lock, made, n, next, before, last,
                 resetQuiet, resetRaced, ops, mem, app>>

\* if !a.cursor.CompareAndSwap(before, 0) { panic(...) }; the deferred Unlock
ResetCAS(t) ==
  /\ pc[t] = "reset_cas"
  /\ IF ResetSwapOK(before[t])
       THEN /\ cursor' = 0
            /\ last' = Fault("ResetOK", 0)
       ELSE /\ cursor' = cursor
            /\ last' = Fault("ResetFault", 0)
  /\ lock' = DeferredUnlock(t, ~ResetSwapOK(before[t]))
  /\ before' = [before EXCEPT ![t] = 0]
  /\ pc' = [pc EXCEPT ![t] = "idle"]
  /\ resetQuiet' = FALSE
  /\ resetRaced' = FALSE
  /\ UNCHANGED <<chunkSize, limit, chunkCursor, current, chunks, made, dirty, n, next,
                 allocs, stale, exhausted, ops, mem, app>>

Next ==
  \E t \in Threads :
    \/ \E sz \in 1..(chunkSize + 1) : Alloc(t, sz)
    \/ AllocFast(t)
    \/ ResizeLock(t)
    \/ ResizeCAS(t)
    \/ ResizeRetry(t)
    \/ ResizeSelect(t)
    \/ Reset(t)
    \/ ResetLock(t)
    \/ ResetZero(t)
    \/ ResetCAS(t)

Spec == Init /\ [][Next]_vars

\* ----------------------------------------------------- Make and Append
\* One goroutine creates an arena, may make a slice in it, and calls Append
\* once.  The slice and the elements it passes are backed by arrays of
\* their own or by the slice it made in the arena.

\* the goroutine that calls Make and Append
G == 1

\* chunk sizes around the sizes of the grown slices: too small for them,
\* exactly as large, and larger
AppendChunkSizes == (MaxChunkSize + 1)..(3 * MaxChunkSize)

\* s := make([]T, l, c) and the elements of a call, outside the arena
HeapSlices == {View(HeapSlice, 0, x[1], x[2]) :
                 x \in {y \in (0..MaxInt) \X (0..MaxInt) : y[1] <= y[2]}}
HeapElemLists == {View(HeapElems, 0, k, k) : k \in 0..MaxElems}

\* Create(chunkSize, WithLimit(limit)) by the goroutine
AppendInit ==
  /\ chunkSize \in AppendChunkSizes
  /\ limit \in 0..MaxLimit
  /\ cursor = 0
  /\ chunkCursor = 0
  /\ current = 0
  /\ chunks = <<0>>
  /\ lock = NoThread
  /\ made = 1
  /\ dirty = {}
  /\ pc = [t \in Threads |-> "idle"]
  /\ n = [t \in Threads |-> 0]
  /\ next = [t \in Threads |-> 0]
  /\ before = [t \in Threads |-> 0]
  /\ last = NoRes
  /\ allocs = EmptyBag
  /\ stale = [t \in Threads |-> FALSE]
  /\ exhausted = FALSE
  /\ resetQuiet = FALSE
  /\ resetRaced = FALSE
  /\ ops = 0
  /\ mem = NoMem
  /\ app = [NoApp EXCEPT !.pc = "start"]

\* a.alloc(sz) is called by thread t: next := a.cursor.Add(int64(n))
AllocAdd(t, sz) ==
  /\ cursor' = cursor + sz
  /\ n' = [n EXCEPT ![t] = sz]
  /\ next' = [next EXCEPT ![t] = cursor + sz]
  /\ pc' = [pc EXCEPT ![t] = IF FastPathOK(cursor + sz) THEN "alloc_read" ELSE "resize_lock"]
  /\ exhausted' = (exhausted \/ ~FastPathOK(cursor + sz))
  /\ ops' = ops + 1
  /\ UNCHANGED <<chunkSize, limit, chunkCursor, current, chunks, lock, made, dirty,
                 before, last, allocs, stale, resetQuiet, resetRaced>>

\* unsafe.Slice((*T)(p), c) over the range that alloc returned: it panics
\* when sizeof(T) * c is not the number of bytes that was asked for, which
\* is when the product wrapped around
SliceOK(e, c) == last.kind = "range" /\ e * c = last.size

\* Make[T](arena, l, c): the call of arena.alloc(int(unsafe.Sizeof(t))*cap)
MakeCall(e, l, c) ==
  /\ app.pc = "start"
  /\ AllocAdd(G, Wrap(e * c))
  /\ app' = [app EXCEPT !.pc = "make", !.esize = e, !.mk = View(NoStore, 0, l, c)]
  /\ UNCHANGED mem

\* Make returns out[:size] and the caller stores its elements, or the
\* panic of alloc reaches the caller
MakeReturn ==
  /\ app.pc = "make"
  /\ pc[G] = "idle"
  /\ IF SliceOK(app.esize, app.mk.cap)
       THEN /\ app' = [app EXCEPT !.pc = "ready",
                                  !.mk = View(last.chunk, last.lo, app.mk.len, app.mk.cap)]
            /\ mem' = WriteBytes(mem, last.chunk, last.lo,
                                 [b \in 1..(app.mk.len * app.esize) |-> MakeTok(b - 1)])
       ELSE /\ app' = [app EXCEPT !.pc = "panic"]
            /\ mem' = mem
  /\ UNCHANGED <<chunkSize, limit, cursor, chunkCursor, current, chunks, lock, made,
                 dirty, pc, n, next, before, last, allocs, stale, exhausted,
                 resetQuiet, resetRaced, ops>>

\* if cap(slice) >= len(slice)+len(elements)
FitsInPlaceStrict(c, nl) == c > nl
FitsInPlace(c, nl) == c >= nl

\* Append(arena, sl, el...) for elements of e bytes.  With room in sl: the
\* built-in append, which moves the elements behind the last element of sl,
\* and panics (growslice: len out of range) when the new length has wrapped
\* around.  Without room: growSlice is entered, newLen := len(slice) +
\* len(elements); capacity := cap(slice).  The backing array of sl is one
\* that make could allocate: its size in bytes is an int.
AppendCall(e, sl, el) ==
  /\ app.pc \in {"start", "ready"}
  /\ e * sl.cap <= MaxInt
  /\ LET m0 == WriteBytes(
                 WriteBytes(mem, HeapSlice, 0,
                            IF sl.store = HeapSlice
                              THEN [b \in 1..(sl.len * e) |-> SliceTok(b - 1)] ELSE <<>>),
                 HeapElems, 0,
                 IF el.store = HeapElems
                   THEN [b \in 1..(el.len * e) |-> ElemTok(b - 1)] ELSE <<>>)
         old == ReadBytes(m0, sl, sl.len * e)
         new == ReadBytes(m0, el, el.len * e)
         newLen == Wrap(sl.len + el.len)
         called == [app EXCEPT !.esize = e, !.slice = sl, !.elems = el, !.old = old,
                               !.new = new, !.newLen = newLen, !.capacity = sl.cap,
                               !.arena = <<cursor, chunkCursor, current, chunks>>,
                               !.calls = ops]
     IN IF FitsInPlace(sl.cap, newLen)
          THEN IF newLen < 0
                 THEN /\ app' = [called EXCEPT !.pc = "panic"]
                      /\ mem' = m0
                 ELSE /\ app' = [called EXCEPT !.pc = "done",
                                       !.res = View(sl.store, sl.off, newLen, sl.cap)]
                      /\ mem' = WriteBytes(m0, sl.store, sl.off + sl.len * e, new)
          ELSE /\ app' = [called EXCEPT !.pc = "test"]
               /\ mem' = m0
  /\ UNCHANGED <<chunkSize, limit, cursor, chunkCursor, current, chunks, lock, made,
                 dirty, pc, n, next, before, last, allocs, stale, exhausted,
                 resetQuiet, resetRaced, ops>>

\* for newLen >= capacity
GrowTest ==
  /\ app.pc = "test"
  /\ app' = [app EXCEPT !.pc = IF app.newLen >= app.capacity THEN "body" ELSE "call"]
  /\ UNCHANGED <<chunkSize, limit, cursor, chunkCursor, current, chunks, lock, made,
                 dirty, pc, n, next, before, last, allocs, stale, exhausted,
                 resetQuiet, resetRaced, ops, mem>>

\* capacity *= 2
GrowBody ==
  /\ app.pc = "body"
  /\ app' = [app EXCEPT !.pc = "test", !.capacity = Wrap(app.capacity * 2)]
  /\ UNCHANGED <<chunkSize, limit, cursor, chunkCursor, current, chunks, lock, made,
                 dirty, pc, n, next, before, last, allocs, stale, exhausted,
                 resetQuiet, resetRaced, ops, mem>>

\* arena.alloc(int(unsafe.Sizeof(t))*capacity) is called
GrowAlloc ==
  /\ app.pc = "call"
  /\ AllocAdd(G, Wrap(app.esize * app.capacity))
  /\ app' = [app EXCEPT !.pc = "alloc"]
  /\ UNCHANGED mem

\* out := unsafe.Slice(..., capacity); copy(out, slice);
\* copy(out[len(slice):], elements); return out[:newLen]; or the panic of
\* alloc or of unsafe.Slice reaches the caller.  copy moves the bytes as
\* memmove does: it reads the source as it is when the copy starts.
GrowCopy ==
  /\ app.pc = "alloc"
  /\ pc[G] = "idle"
  /\ IF SliceOK(app.esize, app.capacity)
       THEN LET e == app.esize
                m1 == WriteBytes(mem, last.chunk, last.lo,
                                 ReadBytes(mem, app.slice, app.slice.len * e))
                m2 == WriteBytes(m1, last.chunk, last.lo + app.slice.len * e,
                                 ReadBytes(m1, app.elems, app.elems.len * e))
            IN /\ mem' = m2
               /\ app' = [app EXCEPT !.pc = "done",
                                     !.res = View(last.chunk, last.lo, app.newLen,
                                                  app.capacity)]
       ELSE /\ app' = [app EXCEPT !.pc = "panic"]
            /\ mem' = mem
  /\ UNCHANGED <<chunkSize, limit, cursor, chunkCursor, current, chunks, lock, made,
                 dirty, pc, n, next, before, last, allocs, stale, exhausted,
                 resetQuiet, resetRaced, ops>>

\* what the goroutine may pass to Append when it is about to call it:
\* slices and elements of its own, and the slice it made in the arena
ElemSizes == IF app.pc = "start" THEN 0..MaxElemSize
             ELSE IF app.pc = "ready" THEN {app.esize} ELSE {}
SliceArgs == HeapSlices \cup (IF app.pc = "ready" THEN {app.mk} ELSE {})
ElemArgs == HeapElemLists \cup
            (IF app.pc = "ready"
               THEN {View(app.mk.store, app.mk.off, app.mk.len, app.mk.len)} ELSE {})

AppendNext ==
  \/ \E e \in ElemSizes \ {0}, c \in 1..MaxElems : \E l \in 0..c : MakeCall(e, l, c)
  \/ MakeReturn
  \/ \E e \in ElemSizes, sl \in SliceArgs, el \in ElemArgs : AppendCall(e, sl, el)
  \/ GrowTest
  \/ GrowBody
  \/ GrowAlloc
  \/ AllocFast(G)
  \/ ResizeLock(G)
  \/ ResizeCAS(G)
  \/ ResizeSelect(G)
  \/ GrowCopy

\* the goroutine keeps running: a step it can take is taken
AppendSpec == AppendInit /\ [][AppendNext]_vars /\ WF_vars(AppendNext)

\* ------------------------------------------------------------------ claims
Returned == BagToSet(allocs)

Disjoint(a, b) == a.chunk # b.chunk \/ a.hi <= b.lo \/ b.hi <= a.lo

\* C1: the allocations returned before any add has overflowed the active
\* chunk (since creation or the last Reset) are ranges of the active chunk
\* and are pairwise disjoint.
C1_FastPathDisjoint ==
  /\ \A a \in Returned :
       a.pre => /\ a.chunk = chunks[1]
                /\ 0 <= a.lo
                /\ a.lo < a.hi
                /\ a.hi <= chunkSize
                /\ CopiesIn(a, allocs) = 1
  /\ \A a, b \in Returned : (a # b /\ a.pre /\ b.pre) => Disjoint(a, b)

\* two such allocations, the one that returned last holding the lower range
C1_Witness ==
  /\ last.kind = "range"
  /\ [chunk |-> last.chunk, lo |-> last.lo, hi |-> last.hi, pre |-> TRUE] \in Returned
  /\ \E a \in Returned : a.pre /\ a.chunk = last.chunk /\ last.hi <= a.lo

\* C2: no two ranges returned since creation or the last Reset overlap in the
\* same chunk, expansions included.
C2_NoOverlap ==
  /\ \A a \in Returned : CopiesIn(a, allocs) = 1
  /\ \A a, b \in Returned : a # b => Disjoint(a, b)

\* C3: with limit = 0 every successful rollover appends a new chunk and makes
\* it the active one, so after k rollovers (chunkCursor = k) the chunk count
\* is k + 1.
C3_UnboundedProvisions ==
  limit = 0 => /\ Len(chunks) = chunkCursor + 1
               /\ current = chunks[Len(chunks)]

\* C4: with limit = L > 0 the chunk count stays within 1..L.
C4_ChunkCountBounded ==
  limit > 0 => (1 <= Len(chunks) /\ Len(chunks) <= limit)

\* the limit is reached with more than one chunk and a call has faulted on it
C4_Witness ==
  /\ limit >= 2
  /\ Len(chunks) = limit
  /\ last.kind = "CapacityExceeded"

\* C5: with limit = L > 0 no allocation gets past the limit check of the
\* expansion while the chunk count already equals L.
C5_FaultAtLimit ==
  \A t \in Threads :
    pc[t] \in {"resize_cas", "resize_retry", "resize_select"}
      => ~(limit > 0 /\ Len(chunks) = limit)

\* C6 as stated: an allocation whose post-add value is at most chunkSize does
\* not enter the expansion.
C6_FastPathAtBoundary ==
  \A t \in Threads : pc[t] = "resize_lock" => next[t] > chunkSize

\* C6 as amended: the fast path is taken exactly when the post-add value is
\* below chunkSize; it returns [next-n, next) of the active chunk, acquires no
\* lock and leaves the chunk list and the chunk index unchanged.
C6_FastPathBelowBoundary ==
  [][\A t \in Threads :
       /\ pc'[t] = "alloc_read" => next'[t] < chunkSize
       /\ pc'[t] = "resize_lock" => next'[t] >= chunkSize
       /\ (pc[t] = "alloc_read" /\ pc'[t] = "idle") =>
            /\ last'.kind = "range"
            /\ last'.chunk = current
            /\ last'.lo = next[t] - n[t]
            /\ last'.hi = next[t]
            /\ UNCHANGED <<chunks, chunkCursor, current>>
            /\ lock' # t
            /\ (lock # t => lock' = lock)
    ]_vars

\* an allocation has ended one byte below the end of the first chunk on the
\* fast path, and the one-byte allocation after it went through the expansion
C6_Witness ==
  /\ last.kind = "range" /\ last.path = "resize" /\ last.size = 1
  /\ \E a \in Returned : a.pre /\ a.hi = chunkSize - 1

\* C7 as stated: a finished alloc(n) with n > chunkSize has faulted with
\* ObjectTooLarge.
C7_AlwaysObjectTooLarge ==
  last.size > chunkSize => last.kind = "ObjectTooLarge"

\* C7 as amended: alloc(n) with n > chunkSize never returns a range; when it
\* finishes, it has faulted with CapacityExceeded if the limit check of the
\* expansion fired and with ObjectTooLarge otherwise.
C7_TooLargeFaults ==
  [][\A t \in Threads :
       (n[t] > chunkSize /\ pc[t] # "idle" /\ pc'[t] = "idle") =>
          /\ last'.kind \in {"ObjectTooLarge", "CapacityExceeded"}
          /\ (last'.kind = "CapacityExceeded" <=> LimitReached)
    ]_vars

\* a call with n > chunkSize has faulted on the limit
C7_Witness == last.size > chunkSize /\ last.kind = "CapacityExceeded"

C9_ResetDetectsRace ==
  [][\A t \in Threads :
       (pc[t] = "reset_cas" /\ pc'[t] = "idle") =>
          /\ last'.kind \in {"ResetOK", "ResetFault"}
          /\ (last'.kind = "ResetFault" <=> resetRaced)
    ]_vars

\* a Reset has faulted while the call whose add raced with it is still running
C9_Witness ==
  /\ last.kind = "ResetFault"
  /\ \E t \in Threads : pc[t] \in {"alloc_read", "resize_lock"}

\* C10: no thread waits for the arena lock while the lock can never be
\* released, that is, while the thread holds the lock itself.
C10_NoThreadBlockedForever ==
  \A t \in Threads : ~(pc[t] \in {"resize_lock", "reset_lock"} /\ lock = t)

\* C11: a thread whose cursor swap failed does not hold the lock while it
\* re-enters alloc: not at the retry's atomic add, not on the retry's fast
\* path and not when the retry enters the expansion again.
C11_RetryWithoutLock ==
  \A t \in Threads :
    pc[t] \in {"resize_retry", "alloc_read", "resize_lock"} => lock # t

\* C12: while the limit still allows a fresh chunk for every rollover (every
\* rollover so far provisioned one and the next one can), the ranges returned
\* by allocations racing with a rollover are pairwise disjoint.
C12_RolloverRaceDisjoint ==
  (limit > 0 /\ Len(chunks) < limit /\ chunkCursor = Len(chunks) - 1) =>
     /\ \A a \in Returned : CopiesIn(a, allocs) = 1
     /\ \A a, b \in Returned : a # b => Disjoint(a, b)

\* C13: when no expansion and no Reset is in progress the chunk index is an
\* index into the chunk list and the active chunk is the chunk at that index.
C13_ChunkIndexValid ==
  lock = NoThread =>
     /\ 0 <= chunkCursor
     /\ chunkCursor < Len(chunks)
     /\ current = chunks[chunkCursor + 1]

\* C14: a returned range of an alloc(n), n > 0, is [start, start+n) with
\* 0 <= start and start+n <= chunkSize, in one chunk of the chunk list that
\* was provisioned with chunkSize bytes.
C14_RangeWithinChunk ==
  [][\A t \in Threads :
       (pc[t] \in {"alloc_read", "resize_select"} /\ pc'[t] = "idle"
          /\ last'.kind = "range") =>
          /\ n[t] > 0
          /\ 0 <= last'.lo
          /\ last'.hi = last'.lo + n[t]
          /\ last'.hi <= chunkSize
          /\ \E i \in 1..Len(chunks') : chunks'[i] = last'.chunk
          /\ last'.chunk \in 0..(made' - 1)
    ]_vars

\* an expansion has returned a whole provisioned chunk
C14_Witness ==
  /\ last.kind = "range" /\ last.path = "resize"
  /\ last.lo = 0 /\ last.hi = chunkSize
  /\ last.chunk # 0

\* C15: the chunk index never trails the end of the chunk list, so the
\* reuse branch of the expansion is never taken.
C15_ReuseNeverTaken == chunkCursor >= Len(chunks) - 1

\* an expansion evaluates the branch after a Reset has cut back a list that
\* had grown
C15_Witness ==
  \E t \in Threads : pc[t] = "resize_select" /\ made >= 2 /\ Len(chunks) = 1

\* C16: the lock is held only by a thread inside the expansion or inside
\* Reset; a thread whose call has ended, by a fault or a return, holds no lock.
C16_LockOnlyInsideCall ==
  /\ lock \in Threads \cup {NoThread}
  /\ lock # NoThread =>
       pc[lock] \in {"resize_cas", "resize_retry", "resize_select",
                     "alloc_read", "resize_lock", "reset_zero", "reset_cas"}

\* after a fault inside the expansion another call holds the lock
C16_Witness ==
  /\ last.kind \in {"ObjectTooLarge", "CapacityExceeded", "ResetFault"}
  /\ lock # NoThread

\* Append has been called
AppendCalled == app.slice.store # NoStore

\* the elements of the slice v, byte by byte
Elements(v) == ReadBytes(mem, v, v.len * app.esize)

\* C17: Append on a slice whose capacity is at least len(slice) plus the
\* number of new elements returns without having touched the arena (cursor,
\* chunk index, chunk list and active chunk are as they were at the call); the
\* returned view has the backing store of the slice, holds the prior
\* elements unchanged at their indices and the new elements from the old
\* length on.
C17_InPlaceAppend ==
  (AppendCalled /\ app.slice.cap >= app.slice.len + app.elems.len) =>
     /\ app.pc = "done"
     /\ <<cursor, chunkCursor, current, chunks>> = app.arena
     /\ ops = app.calls
     /\ app.res.store = app.slice.store
     /\ app.res.off = app.slice.off
     /\ app.res.len = app.slice.len + app.elems.len
     /\ Elements(app.res) = app.old \o app.new

\* an arena slice with room took elements in place after the arena had
\* been used
C17_Witness ==
  /\ AppendCalled
  /\ app.pc = "done"
  /\ app.slice.cap >= app.slice.len + app.elems.len
  /\ app.slice.store = current
  /\ app.slice.len >= 1
  /\ app.elems.len >= 1
  /\ cursor > 0

\* c * 2^k for the smallest k >= 1 with c * 2^k > nl (c > 0)
RECURSIVE Doubled(_, _)
Doubled(c, nl) == IF 2 * c > nl THEN 2 * c ELSE Doubled(2 * c, nl)

\* C18: when Append on a slice of capacity c > 0 with c < newLen =
\* len(slice) + number of new elements has returned, it has allocated exactly
\* one range, of sizeof(T) * c' bytes for c' = c * 2^k with the smallest
\* k >= 1 such that c' > newLen, and the returned view, of length newLen and
\* capacity c' over that range, holds the old elements in order followed by
\* the new elements in order.
C18_GrowAllocatesDoubled ==
  (AppendCalled /\ app.pc = "done" /\ app.slice.cap > 0
     /\ app.slice.cap < app.slice.len + app.elems.len) =>
     LET newLen == app.slice.len + app.elems.len
         c2 == Doubled(app.slice.cap, newLen)
     IN /\ ops = app.calls + 1
        /\ last.kind = "range"
        /\ last.hi - last.lo = app.esize * c2
        /\ app.res = View(last.chunk, last.lo, newLen, c2)
        /\ Elements(app.res) = app.old \o app.new

\* the goroutine is in the growth loop of growSlice
InLoop == app.pc \in {"test", "body"}

\* C19: the growth loop is never left when the slice has capacity 0 (and so
\* at least one element is appended), and is always left when the slice has
\* a capacity above 0.
C19_GrowthLoop ==
  /\ [][(InLoop /\ app.slice.cap = 0) => app'.pc \in {"test", "body"}]_vars
  /\ (InLoop /\ app.slice.cap > 0) ~> ~InLoop
====
